---------------------------- MODULE Spec2Model ----------------------------
(***************************************************************************)
(* The debug store of libs/debugstore/rust: DebugStore (begin, record,     *)
(* end, Display::fmt) over its two storage backends,                       *)
(*   "mutex": debug_store/core.rs over DebugStoreStorage, a parking_lot    *)
(*            Mutex<InsertOnlyRingBuffer> locked with try_lock_for;        *)
(*   "queue": core.rs over Storage, a crossbeam ArrayQueue.                *)
(* Threads call the entry points concurrently; every atomic operation,     *)
(* every lock acquisition and every critical section is one step.          *)
(*                                                                         *)
(* Option<T> is a sequence of length <= 1: <<>> is None, <<v>> is Some(v). *)
(* A String written by fmt is the sequence of the pieces written to it     *)
(* (numbers in decimal, the delimiters, one piece per event).              *)
(* Instant::now() is not modelled: no operation reads an event's timestamp.*)
(***************************************************************************)
EXTENDS Integers, Sequences, FiniteSets, TLC

\* ------------------------------------------------------------- bounds
NumThreads == 2
MaxCapacity == 2
MaxCalls == 3
\* the id counter counts modulo IdModulus (2^64 in the code)
IdModulus == 3

\* -------------------------------------------------- program constants
NON_CLOSABLE_ID == 0
ENCODE_VERSION == 1

Threads == 1..NumThreads
NoThread == 0
Ids == 0..(IdModulus - 1)
\* The (name, data) arguments the callers pass, and the data passed to end.
Args == {<<"x", <<>>>>, <<"y", << <<"k", "v">>, <<"k", "w">> >> >>}
EndDatas == {<<>>, << <<"k", "v">> >>}
Uptimes == {"uptime"}

VARIABLES
    backend,        \* which storage the store is built on
    capacity,       \* InsertOnlyRingBuffer.capacity / ArrayQueue capacity N
    storage,        \* InsertOnlyRingBuffer.storage : [0..capacity-1 -> Option<Event>]
    head,           \* InsertOnlyRingBuffer.head
    lock,           \* holder of DebugStoreStorage.buffer's mutex, or NoThread
    lock_failures,  \* DebugStoreStorage.lock_failures
    insertion_buffer, \* Storage.insertion_buffer (ArrayQueue), oldest first
    id_generator,   \* DebugStore.id_generator
    total_entries,  \* DebugStore.total_entries
    pc,             \* each thread's position
    op,             \* each thread's current entry point
    value,          \* each thread's event handed to insert (Option)
    id,             \* each thread's local `id` of generate_id / begin
    result,         \* each thread's outcome of event_store.insert
    ret,            \* each thread's value returned by begin (Option)
    fmt_total_entries, \* fmt's local `total_entries`
    lock_misses,    \* fmt's local `lock_misses`
    len_result,     \* each thread's outcome of event_store.len
    length,         \* fmt's local `length`
    local_storage,  \* fold's copy of the buffer
    acc,            \* fold's accumulator
    fold_result,    \* each thread's value returned by fold (Option)
    out,            \* the Formatter's output so far
    calls,          \* history: each thread's number of entry-point invocations
    granted,        \* history: the events inserted, in the order of their inserts
    lock_timeouts,  \* history: number of try_lock_for calls that timed out
    last_copy,      \* history: the copy made by the last fold, <<>> after an insert
    fetched,        \* history: the values fetch_add returned, in the order of the increments
    returned,       \* history: for each id, the number of begin calls that returned it
    attempts,       \* history: each thread's try_lock_for calls in its current invocation
    drained_at,     \* history: the number of inserts made when a queue fold last returned (Option)
    after_drain,    \* history: the thread's fmt began after that return, with no insert since
    unissued_ends,  \* history: the non-zero ids passed to end that no begin had returned by then
    popped          \* history: for each pop of a queue fold, in order: the thread, the number of
                    \* its call and the place of the popped event in the insertion order

store == <<backend, capacity, storage, head, lock, lock_failures, insertion_buffer,
           id_generator, total_entries>>
locals == <<pc, op, value, id, result, ret, fmt_total_entries, lock_misses, len_result,
            length, local_storage, acc, fold_result, out>>
fmt_locals == <<fmt_total_entries, lock_misses, len_result, length, local_storage, acc,
                fold_result, out>>
history == <<calls, granted, lock_timeouts, last_copy, fetched, returned, attempts, drained_at,
             after_drain, unissued_ends, popped>>
vars == <<store, locals, history>>

\* ------------------------------------------------------ the event model
\* a constructor that drops the name it is given
EventWithoutName(i, name, kind, data) == [id |-> i, name |-> <<>>, kind |-> kind, data |-> data]

Event(i, name, kind, data) == [id |-> i, name |-> name, kind |-> kind, data |-> data]

\* DebugStoreEvent's Display: one piece of text per event
EventToString(e) == ToString(e)

\* ------------------------------------------------- InsertOnlyRingBuffer
RingNew(c) == [i \in 0..(c - 1) |-> <<>>]

\* insert that writes slot 0 whatever head is
RingInsertStorageAtZero(st, c, h, v) == IF c = 0 THEN st ELSE [st EXCEPT ![0] = <<v>>]

RingInsertStorage(st, c, h, v) == IF c = 0 THEN st ELSE [st EXCEPT ![h] = <<v>>]

\* insert that leaves head where it was
RingInsertHeadStuck(c, h) == h

\* insert that advances head without the remainder
RingInsertHeadWithoutWrap(c, h) == IF c = 0 THEN h ELSE h + 1

\* insert without its early return: head moves also when there is no slot
RingInsertHeadWithoutCapacityTest(c, h) == IF c = 0 THEN h + 1 ELSE (h + 1) % c

RingInsertHead(c, h) == IF c = 0 THEN h ELSE (h + 1) % c

\* is_full that looks at the first slot in place of the last
is_full_first_slot(st, c) == c = 0 \/ st[0] # <<>>

is_full(st, c) == c = 0 \/ st[c - 1] # <<>>

\* len that reports the capacity whatever the slots hold
RingLenAlwaysCapacity(st, c, h) == c

\* len that reports head also when the buffer is full
RingLenWithoutFull(st, c, h) == h

RingLen(st, c, h) == IF is_full(st, c) THEN c ELSE h

\* to_vec_ordered walking the slots backwards from head: newest first
to_vec_ordered_newest_first(st, c, h) ==
    LET Cyc[k \in 0..c] == IF k = 0 THEN <<>> ELSE Cyc[k - 1] \o st[(h + c - k) % c]
    IN  Cyc[c]

\* to_vec_ordered with skip(head + 1): it begins one slot past the oldest
to_vec_ordered_skipping_oldest(st, c, h) ==
    LET Cyc[k \in 0..c] == IF k = 0 THEN <<>> ELSE Cyc[k - 1] \o st[(h + k) % c]
    IN  Cyc[c]

\* to_vec_ordered without its skip(head)
to_vec_ordered_from_zero(st, c, h) ==
    LET Cyc[k \in 0..c] == IF k = 0 THEN <<>> ELSE Cyc[k - 1] \o st[k - 1]
    IN  Cyc[c]

to_vec_ordered(st, c, h) ==
    LET Cyc[k \in 0..c] == IF k = 0 THEN <<>> ELSE Cyc[k - 1] \o st[(h + k - 1) % c]
    IN  Cyc[c]

\* ------------------------------------------------------------ ArrayQueue
\* a push that rejects the new element when the queue is full
push_unless_full(q, n, v) == IF Len(q) >= n THEN q ELSE Append(q, v)

force_push(q, n, v) == IF Len(q) >= n THEN Tail(q) \o <<v>> ELSE Append(q, v)

\* --------------------------------------------------------------- fold
\* a closure that pushes the delimiter also onto the empty accumulator
CombineLeadingDelimiter(a, event) == a \o <<"||", EventToString(event)>>

\* the closure fmt passes to fold
Combine(a, event) == (IF a # <<>> THEN a \o <<"||">> ELSE a) \o <<EventToString(event)>>

\* a fold that visits s from its last element to its first
FoldRightToLeft(init, s) ==
    LET F[k \in 0..Len(s)] ==
            IF k = 0 THEN init ELSE Combine(F[k - 1], s[Len(s) - k + 1])
    IN  F[Len(s)]

\* Iterator::fold(init, func) over s, with fmt's closure as func
FoldLeft(init, s) ==
    LET F[k \in 0..Len(s)] == IF k = 0 THEN init ELSE Combine(F[k - 1], s[k])
    IN  F[Len(s)]

\* ---------------------------------------------------------------- Init
Init ==
    /\ backend \in {"mutex", "queue"}
    /\ capacity \in 0..MaxCapacity
    /\ backend = "queue" => capacity > 0
    /\ storage = RingNew(capacity)
    /\ head = 0
    /\ lock = NoThread
    /\ lock_failures = 0
    /\ insertion_buffer = <<>>
    /\ id_generator = 1
    /\ total_entries = 0
    /\ pc = [t \in Threads |-> "idle"]
    /\ op = [t \in Threads |-> "none"]
    /\ value = [t \in Threads |-> <<>>]
    /\ id = [t \in Threads |-> 0]
    /\ result = [t \in Threads |-> "none"]
    /\ ret = [t \in Threads |-> <<>>]
    /\ fmt_total_entries = [t \in Threads |-> 0]
    /\ lock_misses = [t \in Threads |-> 0]
    /\ len_result = [t \in Threads |-> "none"]
    /\ length = [t \in Threads |-> 0]
    /\ local_storage = [t \in Threads |-> <<>>]
    /\ acc = [t \in Threads |-> <<>>]
    /\ fold_result = [t \in Threads |-> <<>>]
    /\ out = [t \in Threads |-> <<>>]
    /\ calls = [t \in Threads |-> 0]
    /\ granted = <<>>
    /\ lock_timeouts = 0
    /\ last_copy = <<>>
    /\ fetched = <<>>
    /\ returned = [i \in Ids |-> 0]
    /\ attempts = [t \in Threads |-> 0]
    /\ drained_at = <<>>
    /\ after_drain = [t \in Threads |-> FALSE]
    /\ unissued_ends = {}
    /\ popped = <<>>

\* The number of invocations made so far.
TotalCalls ==
    LET S[n \in 0..NumThreads] == IF n = 0 THEN 0 ELSE S[n - 1] + calls[n]
    IN  S[NumThreads]

\* A thread may enter an entry point when it is in none. Threads are numbered
\* in the order of their first calls.
Callable(t) ==
    /\ pc[t] \in {"idle", "done"}
    /\ TotalCalls < MaxCalls
    /\ \A u \in 1..(t - 1) : op[u] # "none"

\* The locals of a fresh invocation of entry point o by thread t.
Enter(t, o, v, next) ==
    /\ calls' = [calls EXCEPT ![t] = calls[t] + 1]
    /\ attempts' = [attempts EXCEPT ![t] = 0]
    /\ after_drain' = [after_drain EXCEPT ![t] = o = "fmt" /\ drained_at = <<Len(granted)>>]
    /\ op' = [op EXCEPT ![t] = o]
    /\ value' = [value EXCEPT ![t] = v]
    /\ result' = [result EXCEPT ![t] = "none"]
    /\ ret' = [ret EXCEPT ![t] = <<>>]
    /\ fmt_total_entries' = [fmt_total_entries EXCEPT ![t] = IF o = "fmt" THEN total_entries ELSE 0]
    /\ lock_misses' = [lock_misses EXCEPT ![t] = 0]
    /\ len_result' = [len_result EXCEPT ![t] = "none"]
    /\ length' = [length EXCEPT ![t] = 0]
    /\ local_storage' = [local_storage EXCEPT ![t] = <<>>]
    /\ acc' = [acc EXCEPT ![t] = <<>>]
    /\ fold_result' = [fold_result EXCEPT ![t] = <<>>]
    /\ out' = [out EXCEPT ![t] = <<>>]
    /\ pc' = [pc EXCEPT ![t] = next]

\* ------------------------------------------------- DebugStore::begin
\* a load in place of the fetch_add: the counter is read and not advanced
FetchAddWithoutAdd(n) == n

\* fetch_add(1) on the wrapping counter
FetchAdd(n) == (n + 1) % IdModulus

\* generate_id taking the counter's largest value, not 0, for the sentinel
RedrawOnLargest(drawn) == drawn = IdModulus - 1

\* generate_id without its loop
RedrawNever(drawn) == FALSE

\* generate_id leaves its loop with a drawn id that is not the sentinel
Redraw(drawn) == drawn = NON_CLOSABLE_ID

\* begin up to generate_id's first fetch_add
begin(t, name, data) ==
    /\ Callable(t)
    /\ Enter(t, "begin", <<Event(id_generator, <<name>>, "DurationStart", data)>>,
             IF Redraw(id_generator) THEN "generate_id" ELSE "insert")
    /\ id_generator' = FetchAdd(id_generator)
    /\ id' = [id EXCEPT ![t] = id_generator]
    /\ fetched' = Append(fetched, id_generator)
    /\ UNCHANGED <<backend, capacity, storage, head, lock, lock_failures, insertion_buffer,
                   total_entries, granted, lock_timeouts, last_copy, returned,
                   drained_at, unissued_ends, popped>>

\* One more fetch_add of generate_id's loop.
generate_id(t) ==
    /\ pc[t] = "generate_id"
    /\ id_generator' = FetchAdd(id_generator)
    /\ id' = [id EXCEPT ![t] = id_generator]
    /\ value' = [value EXCEPT ![t] = <<[value[t][1] EXCEPT !.id = id_generator]>>]
    /\ pc' = [pc EXCEPT ![t] = IF Redraw(id_generator) THEN "generate_id" ELSE "insert"]
    /\ fetched' = Append(fetched, id_generator)
    /\ UNCHANGED <<backend, capacity, storage, head, lock, lock_failures, insertion_buffer,
                   total_entries, op, result, ret, fmt_locals, calls, granted,
                   lock_timeouts, last_copy, returned, attempts,
                   drained_at, after_drain, unissued_ends, popped>>

\* ------------------------------------------------- DebugStore::record
\* a record that takes its event's id from the id generator, as begin does
record_with_generated_id(t, name, data) ==
    /\ Callable(t)
    /\ Enter(t, "record", <<Event(id_generator, <<name>>, "Point", data)>>, "insert")
    /\ id' = [id EXCEPT ![t] = id_generator]
    /\ id_generator' = FetchAdd(id_generator)
    /\ fetched' = Append(fetched, id_generator)
    /\ UNCHANGED <<backend, capacity, storage, head, lock, lock_failures, insertion_buffer,
                   total_entries, granted, lock_timeouts, last_copy, returned,
                   drained_at, unissued_ends, popped>>

record(t, name, data) ==
    /\ Callable(t)
    /\ Enter(t, "record", <<Event(NON_CLOSABLE_ID, <<name>>, "Point", data)>>, "insert")
    /\ id' = [id EXCEPT ![t] = NON_CLOSABLE_ID]
    /\ UNCHANGED <<store, granted, lock_timeouts, last_copy, fetched, returned,
                   drained_at, unissued_ends, popped>>

\* ---------------------------------------------------- DebugStore::end
\* end without its test of the sentinel
EndInsertsAlways(i) == TRUE

\* end that inserts only for the id the generator handed out last
EndInsertsOnlyLastIssued(i) == i # NON_CLOSABLE_ID /\ (i + 1) % IdModulus = id_generator

\* end with its test of the sentinel inverted
EndInsertsOnlySentinel(i) == i = NON_CLOSABLE_ID

EndInserts(i) == i # NON_CLOSABLE_ID

end(t, i, data) ==
    /\ Callable(t)
    /\ IF EndInserts(i)
         THEN Enter(t, "end", <<Event(i, <<>>, "DurationEnd", data)>>, "insert")
         ELSE Enter(t, "end", <<>>, "done")
    /\ id' = [id EXCEPT ![t] = i]
    /\ unissued_ends' = IF i # NON_CLOSABLE_ID /\ returned[i] = 0 THEN unissued_ends \cup {i} ELSE unissued_ends
    /\ UNCHANGED <<store, granted, lock_timeouts, last_copy, fetched, returned,
                   drained_at, popped>>

\* Where a thread continues when event_store.insert has returned.
AfterInsert(t) == IF op[t] = "begin" THEN "begin_return" ELSE "done"

\* ------------------------------------------- DebugStoreStorage::insert
\* try_lock_for acquires the mutex when it is free ...
insert_lock(t) ==
    /\ backend = "mutex"
    /\ pc[t] = "insert"
    /\ lock = NoThread
    /\ lock' = t
    /\ attempts' = [attempts EXCEPT ![t] = @ + 1]
    /\ pc' = [pc EXCEPT ![t] = "insert_locked"]
    /\ UNCHANGED <<backend, capacity, storage, head, lock_failures, insertion_buffer,
                   id_generator, total_entries, op, value, id, result, ret, fmt_locals,
                   calls, granted, lock_timeouts,
                   last_copy, fetched, returned,
                   drained_at, after_drain, unissued_ends, popped>>

\* ... InsertOnlyRingBuffer::insert runs under it, and the guard is dropped
insert_locked(t) ==
    /\ pc[t] = "insert_locked"
    /\ storage' = RingInsertStorage(storage, capacity, head, value[t][1])
    /\ head' = RingInsertHead(capacity, head)
    /\ lock' = NoThread
    /\ result' = [result EXCEPT ![t] = "ok"]
    /\ pc' = [pc EXCEPT ![t] = AfterInsert(t)]
    /\ granted' = Append(granted, value[t][1])
    /\ last_copy' = <<>>
    /\ UNCHANGED <<backend, capacity, lock_failures, insertion_buffer, id_generator,
                   total_entries, op, value, id, ret, fmt_locals, calls, lock_timeouts,
                   fetched, returned, attempts,
                   drained_at, after_drain, unissued_ends, popped>>

\* an insert that gives up without counting the failure
InsertMissNotCounted(n) == n

\* The counter after a failed acquisition in insert.
InsertMiss(n) == n + 1

\* a lock() in place of try_lock_for: it waits for the mutex without a deadline
insert_never_gives_up(t) ==
    /\ backend = "mutex"
    /\ pc[t] = "insert"
    /\ FALSE
    /\ UNCHANGED vars

\* ... or try_lock_for gives up while another thread holds the mutex
insert_timeout(t) ==
    /\ backend = "mutex"
    /\ pc[t] = "insert"
    /\ lock # NoThread
    /\ lock_failures' = InsertMiss(lock_failures)
    /\ result' = [result EXCEPT ![t] = "timeout"]
    /\ pc' = [pc EXCEPT ![t] = AfterInsert(t)]
    /\ lock_timeouts' = lock_timeouts + 1
    /\ attempts' = [attempts EXCEPT ![t] = @ + 1]
    /\ UNCHANGED <<backend, capacity, storage, head, lock, insertion_buffer, id_generator,
                   total_entries, op, value, id, ret, fmt_locals, calls, granted, last_copy,
                   fetched, returned,
                   drained_at, after_drain, unissued_ends, popped>>

\* begin with its two branches exchanged: the id after a timeout, the sentinel after Ok
BeginResultExchanged(r, i) == IF r = "ok" THEN NON_CLOSABLE_ID ELSE i

\* begin returning the drawn id whatever insert returned
BeginResultAlwaysId(r, i) == i

\* What begin returns, from insert's outcome r and the drawn id i.
BeginResult(r, i) == IF r = "ok" THEN i ELSE NON_CLOSABLE_ID

\* a begin that counts the entry whatever insert returned
begin_return_counting_every_begin(t) ==
    /\ pc[t] = "begin_return"
    /\ total_entries' = total_entries + 1
    /\ ret' = [ret EXCEPT ![t] = <<BeginResult(result[t], id[t])>>]
    /\ pc' = [pc EXCEPT ![t] = "done"]
    /\ returned' = [returned EXCEPT ![ret'[t][1]] = @ + 1]
    /\ UNCHANGED <<backend, capacity, storage, head, lock, lock_failures, insertion_buffer,
                   id_generator, op, value, id, result, fmt_locals, calls, granted,
                   lock_timeouts, last_copy, fetched, attempts,
                   drained_at, after_drain, unissued_ends, popped>>

\* The rest of begin (mutex backend) once insert has returned.
begin_return(t) ==
    /\ pc[t] = "begin_return"
    /\ total_entries' = IF result[t] = "ok" THEN total_entries + 1 ELSE total_entries
    /\ ret' = [ret EXCEPT ![t] = <<BeginResult(result[t], id[t])>>]
    /\ pc' = [pc EXCEPT ![t] = "done"]
    /\ returned' = [returned EXCEPT ![ret'[t][1]] = @ + 1]
    /\ UNCHANGED <<backend, capacity, storage, head, lock, lock_failures, insertion_buffer,
                   id_generator, op, value, id, result, fmt_locals, calls, granted,
                   lock_timeouts, last_copy, fetched, attempts,
                   drained_at, after_drain, unissued_ends, popped>>

\* ---------------------------------------------------- Storage::insert
\* force_push, and the rest of the entry point (begin returns id)
lf_insert(t) ==
    /\ backend = "queue"
    /\ pc[t] = "insert"
    /\ insertion_buffer' = force_push(insertion_buffer, capacity, value[t][1])
    /\ result' = [result EXCEPT ![t] = "ok"]
    /\ ret' = [ret EXCEPT ![t] = IF op[t] = "begin" THEN <<id[t]>> ELSE <<>>]
    /\ pc' = [pc EXCEPT ![t] = "done"]
    /\ granted' = Append(granted, value[t][1])
    /\ after_drain' = [u \in Threads |-> FALSE]
    /\ returned' = IF op[t] = "begin" THEN [returned EXCEPT ![id[t]] = @ + 1] ELSE returned
    /\ UNCHANGED <<backend, capacity, storage, head, lock, lock_failures, id_generator,
                   total_entries, op, value, id, fmt_locals, calls, lock_timeouts, last_copy,
                   fetched, attempts, drained_at, unissued_ends, popped>>

\* ------------------------------------- impl fmt::Display for DebugStore
\* fmt up to its load of total_entries (mutex backend)
fmt(t) ==
    /\ Callable(t)
    /\ Enter(t, "fmt", <<>>, IF backend = "mutex" THEN "get_lock_misses" ELSE "lf_len")
    /\ id' = [id EXCEPT ![t] = NON_CLOSABLE_ID]
    /\ UNCHANGED <<store, granted, lock_timeouts, last_copy, fetched, returned,
                   drained_at, unissued_ends, popped>>

get_lock_misses(t) ==
    /\ pc[t] = "get_lock_misses"
    /\ lock_misses' = [lock_misses EXCEPT ![t] = lock_failures]
    /\ pc' = [pc EXCEPT ![t] = "len"]
    /\ UNCHANGED <<store, op, value, id, result, ret, fmt_total_entries, len_result, length,
                   local_storage, acc, fold_result, out, history>>

\* a length that is len's value, or 0, also after a timeout
LengthFieldZeroOnTimeout(r, n) == n

\* fmt's `length`, from what len returned: r its outcome, n its value.
LengthField(r, n) == IF r = "ok" THEN n ELSE -1

\* The header fmt writes (mutex backend).
Header(total, len, misses, uptime) ==
    <<ToString(ENCODE_VERSION), ",", ToString(total), ",", ToString(len), ",",
      ToString(misses), ",", uptime, "::">>

\* ---------------------------------------------- DebugStoreStorage::len
len_lock(t) ==
    /\ pc[t] = "len"
    /\ lock = NoThread
    /\ lock' = t
    /\ attempts' = [attempts EXCEPT ![t] = @ + 1]
    /\ pc' = [pc EXCEPT ![t] = "len_locked"]
    /\ UNCHANGED <<backend, capacity, storage, head, lock_failures, insertion_buffer,
                   id_generator, total_entries, op, value, id, result, ret, fmt_locals,
                   calls, granted, lock_timeouts,
                   last_copy, fetched, returned,
                   drained_at, after_drain, unissued_ends, popped>>

\* a len that returns without dropping its guard
len_locked_keeping_guard(t) ==
    /\ pc[t] = "len_locked"
    /\ lock' = lock
    /\ len_result' = [len_result EXCEPT ![t] = "ok"]
    /\ length' = [length EXCEPT ![t] = LengthField("ok", RingLen(storage, capacity, head))]
    /\ \E uptime \in Uptimes :
         out' = [out EXCEPT ![t] = Header(fmt_total_entries[t], length'[t], lock_misses[t],
                                          uptime)]
    /\ pc' = [pc EXCEPT ![t] = "fold"]
    /\ UNCHANGED <<backend, capacity, storage, head, lock_failures, insertion_buffer,
                   id_generator, total_entries, op, value, id, result, ret,
                   fmt_total_entries, lock_misses, local_storage, acc, fold_result, history>>

\* InsertOnlyRingBuffer::len under the lock; then fmt writes the header
len_locked(t) ==
    /\ pc[t] = "len_locked"
    /\ lock' = NoThread
    /\ len_result' = [len_result EXCEPT ![t] = "ok"]
    /\ length' = [length EXCEPT ![t] = LengthField("ok", RingLen(storage, capacity, head))]
    /\ \E uptime \in Uptimes :
         out' = [out EXCEPT ![t] = Header(fmt_total_entries[t], length'[t], lock_misses[t],
                                          uptime)]
    /\ pc' = [pc EXCEPT ![t] = "fold"]
    /\ UNCHANGED <<backend, capacity, storage, head, lock_failures, insertion_buffer,
                   id_generator, total_entries, op, value, id, result, ret,
                   fmt_total_entries, lock_misses, local_storage, acc, fold_result, history>>

\* The counter after a failed acquisition in len.
LenMiss(n) == n

len_timeout(t) ==
    /\ pc[t] = "len"
    /\ lock # NoThread
    /\ lock_failures' = LenMiss(lock_failures)
    /\ len_result' = [len_result EXCEPT ![t] = "timeout"]
    /\ length' = [length EXCEPT ![t] = LengthField("timeout", 0)]
    /\ \E uptime \in Uptimes :
         out' = [out EXCEPT ![t] = Header(fmt_total_entries[t], length'[t], lock_misses[t],
                                          uptime)]
    /\ pc' = [pc EXCEPT ![t] = "fold"]
    /\ lock_timeouts' = lock_timeouts + 1
    /\ attempts' = [attempts EXCEPT ![t] = @ + 1]
    /\ UNCHANGED <<backend, capacity, storage, head, lock, insertion_buffer, id_generator,
                   total_entries, op, value, id, result, ret, fmt_total_entries,
                   lock_misses, local_storage, acc, fold_result, calls, granted, last_copy,
                   fetched, returned,
                   drained_at, after_drain, unissued_ends, popped>>

\* --------------------------------------------- DebugStoreStorage::fold
fold_lock(t) ==
    /\ pc[t] = "fold"
    /\ lock = NoThread
    /\ lock' = t
    /\ attempts' = [attempts EXCEPT ![t] = @ + 1]
    /\ pc' = [pc EXCEPT ![t] = "fold_locked"]
    /\ UNCHANGED <<backend, capacity, storage, head, lock_failures, insertion_buffer,
                   id_generator, total_entries, op, value, id, result, ret, fmt_locals,
                   calls, granted, lock_timeouts,
                   last_copy, fetched, returned,
                   drained_at, after_drain, unissued_ends, popped>>

\* a fold that keeps the guard while it processes the copy
fold_locked_keeping_guard(t) ==
    /\ pc[t] = "fold_locked"
    /\ local_storage' = [local_storage EXCEPT ![t] = to_vec_ordered(storage, capacity, head)]
    /\ pc' = [pc EXCEPT ![t] = "fold_combine"]
    /\ last_copy' = <<local_storage'[t]>>
    /\ UNCHANGED <<backend, capacity, storage, head, lock, lock_failures, insertion_buffer,
                   id_generator, total_entries, op, value, id, result, ret,
                   fmt_total_entries, lock_misses, len_result, length, acc, fold_result,
                   out, calls, granted, lock_timeouts, fetched, returned, attempts,
                   drained_at, after_drain, unissued_ends, popped>>

\* a fold that empties the buffer it has copied
fold_locked_draining(t) ==
    /\ pc[t] = "fold_locked"
    /\ local_storage' = [local_storage EXCEPT ![t] = to_vec_ordered(storage, capacity, head)]
    /\ storage' = RingNew(capacity)
    /\ head' = 0
    /\ lock' = NoThread
    /\ pc' = [pc EXCEPT ![t] = "fold_combine"]
    /\ last_copy' = <<local_storage'[t]>>
    /\ UNCHANGED <<backend, capacity, lock_failures, insertion_buffer,
                   id_generator, total_entries, op, value, id, result, ret,
                   fmt_total_entries, lock_misses, len_result, length, acc, fold_result,
                   out, calls, granted, lock_timeouts, fetched, returned, attempts,
                   drained_at, after_drain, unissued_ends, popped>>

\* to_vec_ordered under the lock; the guard is dropped with the closure
fold_locked(t) ==
    /\ pc[t] = "fold_locked"
    /\ local_storage' = [local_storage EXCEPT ![t] = to_vec_ordered(storage, capacity, head)]
    /\ lock' = NoThread
    /\ pc' = [pc EXCEPT ![t] = "fold_combine"]
    /\ last_copy' = <<local_storage'[t]>>
    /\ UNCHANGED <<backend, capacity, storage, head, lock_failures, insertion_buffer,
                   id_generator, total_entries, op, value, id, result, ret,
                   fmt_total_entries, lock_misses, len_result, length, acc, fold_result,
                   out, calls, granted, lock_timeouts, fetched, returned, attempts,
                   drained_at, after_drain, unissued_ends, popped>>

\* into_iter().fold(init, func) on the copy; then fmt writes the events
fold_combine(t) ==
    /\ pc[t] = "fold_combine"
    /\ acc' = [acc EXCEPT ![t] = FoldLeft(<<>>, local_storage[t])]
    /\ fold_result' = [fold_result EXCEPT ![t] = <<acc'[t]>>]
    /\ out' = [out EXCEPT ![t] = out[t] \o acc'[t]]
    /\ pc' = [pc EXCEPT ![t] = "done"]
    /\ UNCHANGED <<store, op, value, id, result, ret, fmt_total_entries, lock_misses,
                   len_result, length, local_storage, history>>

\* The counter after a failed acquisition in fold.
FoldMiss(n) == n

\* a fmt that writes nothing where fold returned None
fold_timeout_without_placeholder(t) ==
    /\ pc[t] = "fold"
    /\ lock # NoThread
    /\ lock_failures' = FoldMiss(lock_failures)
    /\ fold_result' = [fold_result EXCEPT ![t] = <<>>]
    /\ pc' = [pc EXCEPT ![t] = "done"]
    /\ lock_timeouts' = lock_timeouts + 1
    /\ attempts' = [attempts EXCEPT ![t] = @ + 1]
    /\ UNCHANGED <<backend, capacity, storage, head, lock, insertion_buffer, id_generator,
                   total_entries, op, value, id, result, ret, fmt_total_entries,
                   lock_misses, len_result, length, local_storage, acc, out, calls,
                   granted, last_copy, fetched, returned,
                   drained_at, after_drain, unissued_ends, popped>>

\* fold returns None; fmt writes the placeholder
fold_timeout(t) ==
    /\ pc[t] = "fold"
    /\ lock # NoThread
    /\ lock_failures' = FoldMiss(lock_failures)
    /\ fold_result' = [fold_result EXCEPT ![t] = <<>>]
    /\ out' = [out EXCEPT ![t] = out[t] \o <<"-">>]
    /\ pc' = [pc EXCEPT ![t] = "done"]
    /\ lock_timeouts' = lock_timeouts + 1
    /\ attempts' = [attempts EXCEPT ![t] = @ + 1]
    /\ UNCHANGED <<backend, capacity, storage, head, lock, insertion_buffer, id_generator,
                   total_entries, op, value, id, result, ret, fmt_total_entries,
                   lock_misses, len_result, length, local_storage, acc, calls, granted,
                   last_copy, fetched, returned,
                   drained_at, after_drain, unissued_ends, popped>>

\* --------------------------------- fmt over Storage (the queue backend)
\* The header fmt writes (queue backend).
LfHeader(len, uptime) ==
    <<ToString(ENCODE_VERSION), ",", ToString(len), ",", uptime, "::">>

\* Storage::len, and the header
lf_len(t) ==
    /\ pc[t] = "lf_len"
    /\ len_result' = [len_result EXCEPT ![t] = "ok"]
    /\ length' = [length EXCEPT ![t] = Len(insertion_buffer)]
    /\ \E uptime \in Uptimes : out' = [out EXCEPT ![t] = LfHeader(length'[t], uptime)]
    /\ pc' = [pc EXCEPT ![t] = "lf_fold"]
    /\ UNCHANGED <<store, op, value, id, result, ret, fmt_total_entries, lock_misses,
                   local_storage, acc, fold_result, history>>

\* a fold that reads the oldest event and leaves it in the queue
lf_fold_pop_without_removal(t) ==
    /\ pc[t] = "lf_fold"
    /\ insertion_buffer # <<>>
    /\ insertion_buffer' = insertion_buffer
    /\ acc' = [acc EXCEPT ![t] = Combine(acc[t], Head(insertion_buffer))]
    /\ popped' = Append(popped, [thread |-> t, call |-> calls[t],
                                  place |-> Len(granted) - Len(insertion_buffer) + 1])
    /\ UNCHANGED <<backend, capacity, storage, head, lock, lock_failures, id_generator,
                   total_entries, pc, op, value, id, result, ret, fmt_total_entries,
                   lock_misses, len_result, length, local_storage, fold_result, out,
                   calls, granted, lock_timeouts, last_copy, fetched, returned, attempts,
                   drained_at, after_drain, unissued_ends>>

\* Storage::fold: one pop that returns Some(value)
lf_fold_pop(t) ==
    /\ pc[t] = "lf_fold"
    /\ insertion_buffer # <<>>
    /\ insertion_buffer' = Tail(insertion_buffer)
    /\ acc' = [acc EXCEPT ![t] = Combine(acc[t], Head(insertion_buffer))]
    /\ popped' = Append(popped, [thread |-> t, call |-> calls[t],
                                  place |-> Len(granted) - Len(insertion_buffer) + 1])
    /\ UNCHANGED <<backend, capacity, storage, head, lock, lock_failures, id_generator,
                   total_entries, pc, op, value, id, result, ret, fmt_total_entries,
                   lock_misses, len_result, length, local_storage, fold_result, out,
                   calls, granted, lock_timeouts, last_copy, fetched, returned, attempts,
                   drained_at, after_drain, unissued_ends>>

\* a fold that may stop before pop has returned None
lf_fold_end_before_none(t) ==
    /\ pc[t] = "lf_fold"
    /\ fold_result' = [fold_result EXCEPT ![t] = <<acc[t]>>]
    /\ out' = [out EXCEPT ![t] = out[t] \o acc[t]]
    /\ pc' = [pc EXCEPT ![t] = "done"]
    /\ drained_at' = <<Len(granted)>>
    /\ UNCHANGED <<store, op, value, id, result, ret, fmt_total_entries, lock_misses,
                   len_result, length, local_storage, acc, calls, granted,
                   lock_timeouts, last_copy, fetched, returned, attempts, after_drain, unissued_ends, popped>>

\* Storage::fold: the pop that returns None ends the loop; fmt writes acc
lf_fold_end(t) ==
    /\ pc[t] = "lf_fold"
    /\ insertion_buffer = <<>>
    /\ fold_result' = [fold_result EXCEPT ![t] = <<acc[t]>>]
    /\ out' = [out EXCEPT ![t] = out[t] \o acc[t]]
    /\ pc' = [pc EXCEPT ![t] = "done"]
    /\ drained_at' = <<Len(granted)>>
    /\ UNCHANGED <<store, op, value, id, result, ret, fmt_total_entries, lock_misses,
                   len_result, length, local_storage, acc, calls, granted,
                   lock_timeouts, last_copy, fetched, returned, attempts, after_drain, unissued_ends, popped>>

Next ==
    \/ \E t \in Threads, a \in Args : begin(t, a[1], a[2])
    \/ \E t \in Threads : generate_id(t)
    \/ \E t \in Threads, a \in Args : record(t, a[1], a[2])
    \/ \E t \in Threads, i \in Ids, data \in EndDatas : end(t, i, data)
    \/ \E t \in Threads : insert_lock(t)
    \/ \E t \in Threads : insert_locked(t)
    \/ \E t \in Threads : insert_timeout(t)
    \/ \E t \in Threads : begin_return(t)
    \/ \E t \in Threads : lf_insert(t)
    \/ \E t \in Threads : fmt(t)
    \/ \E t \in Threads : get_lock_misses(t)
    \/ \E t \in Threads : len_lock(t)
    \/ \E t \in Threads : len_locked(t)
    \/ \E t \in Threads : len_timeout(t)
    \/ \E t \in Threads : fold_lock(t)
    \/ \E t \in Threads : fold_locked(t)
    \/ \E t \in Threads : fold_combine(t)
    \/ \E t \in Threads : fold_timeout(t)
    \/ \E t \in Threads : lf_len(t)
    \/ \E t \in Threads : lf_fold_pop(t)
    \/ \E t \in Threads : lf_fold_end(t)

Spec == Init /\ [][Next]_vars

\* --------------------------------------------------------- scheduling
\* A step of thread t inside begin, record or end.
CallStep(t) ==
    \/ generate_id(t)
    \/ insert_lock(t)
    \/ insert_locked(t)
    \/ insert_timeout(t)
    \/ begin_return(t)
    \/ lf_insert(t)

\* A thread that is inside begin, record or end keeps running its code; a
\* thread inside fmt may stop anywhere, also while it holds the lock.
LiveSpec == Spec /\ \A t \in Threads : WF_vars(CallStep(t))

\* ------------------------------ the drain loop under unbounded producers
\* The queue backend with no bound on the number of record calls. The
\* history of these calls is not kept, and the accumulator of fold, which no
\* test of the loop reads, is left out: the state is what decides whether the
\* loop of Storage::fold goes round again.

\* DebugStore::record up to its insert
record_unrecorded(t, name, data) ==
    /\ backend = "queue"
    /\ pc[t] \in {"idle", "done"}
    /\ op' = [op EXCEPT ![t] = "record"]
    /\ value' = [value EXCEPT ![t] = <<Event(NON_CLOSABLE_ID, <<name>>, "Point", data)>>]
    /\ id' = [id EXCEPT ![t] = NON_CLOSABLE_ID]
    /\ result' = [result EXCEPT ![t] = "none"]
    /\ ret' = [ret EXCEPT ![t] = <<>>]
    /\ fmt_total_entries' = [fmt_total_entries EXCEPT ![t] = 0]
    /\ lock_misses' = [lock_misses EXCEPT ![t] = 0]
    /\ len_result' = [len_result EXCEPT ![t] = "none"]
    /\ length' = [length EXCEPT ![t] = 0]
    /\ local_storage' = [local_storage EXCEPT ![t] = <<>>]
    /\ acc' = [acc EXCEPT ![t] = <<>>]
    /\ fold_result' = [fold_result EXCEPT ![t] = <<>>]
    /\ out' = [out EXCEPT ![t] = <<>>]
    /\ pc' = [pc EXCEPT ![t] = "insert"]
    /\ UNCHANGED <<store, history>>

\* Storage::insert: force_push, and record returns
lf_insert_unrecorded(t) ==
    /\ backend = "queue"
    /\ pc[t] = "insert"
    /\ op[t] = "record"
    /\ insertion_buffer' = force_push(insertion_buffer, capacity, value[t][1])
    /\ result' = [result EXCEPT ![t] = "ok"]
    /\ pc' = [pc EXCEPT ![t] = "done"]
    /\ UNCHANGED <<backend, capacity, storage, head, lock, lock_failures, id_generator,
                   total_entries, op, value, id, ret, fmt_locals, history>>

\* Storage::fold: one pop that returns Some(value); the loop goes round again
lf_fold_pop_discarding(t) ==
    /\ pc[t] = "lf_fold"
    /\ insertion_buffer # <<>>
    /\ insertion_buffer' = Tail(insertion_buffer)
    /\ UNCHANGED <<backend, capacity, storage, head, lock, lock_failures, id_generator,
                   total_entries, locals, history>>

DrainInit == Init /\ backend = "queue"

DrainNext ==
    \/ \E t \in Threads, a \in Args : record_unrecorded(t, a[1], a[2])
    \/ \E t \in Threads : lf_insert_unrecorded(t)
    \/ \E t \in Threads : fmt(t)
    \/ \E t \in Threads : lf_len(t)
    \/ \E t \in Threads : lf_fold_pop_discarding(t)
    \/ \E t \in Threads : lf_fold_end(t)

\* A step of thread t inside record or fmt.
DrainStep(t) ==
    \/ lf_insert_unrecorded(t)
    \/ lf_len(t)
    \/ lf_fold_pop_discarding(t)
    \/ lf_fold_end(t)

\* Every thread that is inside a call keeps running its code; no thread has to
\* call again.
DrainSpec == DrainInit /\ [][DrainNext]_vars /\ \A t \in Threads : WF_vars(DrainStep(t))

\* =================================================================== claims
Min(a, b) == IF a < b THEN a ELSE b

\* The last n elements of s.
LastN(s, n) == SubSeq(s, Len(s) - n + 1, Len(s))

\* The threads that have returned from an invocation of entry point o.
Returned(o) == {t \in Threads : op[t] = o /\ pc[t] = "done"}

\* C1: with capacity c > 0, after any n inserts to_vec_ordered is exactly the
\* last min(n, c) inserted values, oldest first.
C1_RingKeepsLastCapacity ==
    (backend = "mutex" /\ capacity > 0) =>
        to_vec_ordered(storage, capacity, head)
            = LastN(granted, Min(Len(granted), capacity))

\* capacity 2, inserts A,B,C of distinct events: the buffer reads [B,C]
C1_Witness ==
    /\ backend = "mutex"
    /\ capacity = 2
    /\ Len(granted) = 3
    /\ granted[1] # granted[2] /\ granted[1] # granted[3] /\ granted[2] # granted[3]
    /\ to_vec_ordered(storage, capacity, head) = <<granted[2], granted[3]>>

C4_LockFailuresCountsEveryTimeout == lock_failures = lock_timeouts

\* C5: (mutex backend) two consecutive folds with no insert between them see
\* the same sequence of events, and no step of fmt (its len, its fold) changes
\* the ring buffer's slots or head.
C5_FoldIsNonDestructive ==
    [][ /\ (last_copy # <<>> /\ last_copy' # <<>>) => last_copy' = last_copy
        /\ \A t \in Threads :
              (op'[t] = "fmt" /\ (pc'[t] # pc[t] \/ calls'[t] # calls[t]))
                  => UNCHANGED <<storage, head>> ]_vars

\* two folds of a buffer holding an event, with no insert between them
C5_Witness ==
    \E t \in Returned("fmt") : \E u \in Threads \ {t} :
        /\ backend = "mutex"
        /\ op[u] = "fmt" /\ pc[u] \in {"fold_combine", "done"}
        /\ fold_result[t] # <<>>
        /\ local_storage[t] # <<>>
        /\ local_storage[u] = local_storage[t]
        /\ last_copy = <<local_storage[u]>>

\* C6: end(0, _) goes straight back to its caller: it hands no event to
\* insert, attempts no lock acquisition, and leaves the ring buffer, the
\* queue, the id generator, total_entries and lock_failures unchanged.
C6_EndZeroIsNoOp ==
    /\ [](\A t \in Threads :
            (op[t] = "end" /\ id[t] = NON_CLOSABLE_ID)
                => (pc[t] = "done" /\ value[t] = <<>> /\ result[t] = "none"))
    /\ [][ \A t \in Threads :
            (calls'[t] # calls[t] /\ op'[t] = "end" /\ id'[t] = NON_CLOSABLE_ID)
                => UNCHANGED <<store, granted, lock_timeouts, last_copy>> ]_vars

\* end(0, _) has been called on a store that holds an event
C6_Witness ==
    \E t \in Returned("end") :
        /\ id[t] = NON_CLOSABLE_ID
        /\ calls[t] >= 2
        /\ granted # <<>>

\* The step in which thread t's insert returns Ok / returns LockTimeout.
InsertReturnsOk(t) == backend = "mutex" /\ result[t] = "none" /\ result'[t] = "ok"
InsertReturnsTimeout(t) == result[t] = "none" /\ result'[t] = "timeout"

\* C7 as stated: an insert that returns Ok has written its value into exactly
\* the slot at head and advanced head; one that times out changed no slot and
\* not head.
C7_InsertWritesOneSlotOrNothing ==
    [][ \A t \in Threads :
          /\ InsertReturnsOk(t) =>
                \E i \in 0..(capacity - 1) :
                    /\ i = head
                    /\ storage' = [storage EXCEPT ![i] = value[t]]
                    /\ head' = (head + 1) % capacity
          /\ InsertReturnsTimeout(t) => UNCHANGED <<storage, head>> ]_vars

\* C7 amended: with capacity > 0 an insert that returns Ok has written its
\* value into exactly the slot at head and set head to (head + 1) mod
\* capacity; with capacity 0 it returns Ok having written nothing; an insert
\* that times out leaves slots and head unchanged and counts one lock failure;
\* and slots and head change in no other step.
C7_InsertIsAtomic ==
    [][ /\ \A t \in Threads :
            /\ (InsertReturnsOk(t) /\ capacity > 0) =>
                  /\ storage' = [storage EXCEPT ![head] = value[t]]
                  /\ head' = (head + 1) % capacity
                  /\ lock_failures' = lock_failures
            /\ (InsertReturnsOk(t) /\ capacity = 0) =>
                  UNCHANGED <<storage, head, lock_failures>>
            /\ InsertReturnsTimeout(t) =>
                  /\ UNCHANGED <<storage, head>>
                  /\ lock_failures' = lock_failures + 1
        /\ (storage' # storage \/ head' # head) =>
              \E t \in Threads : InsertReturnsOk(t) ]_vars

\* one insert has written slot 0 of two and another has timed out
C7_Witness ==
    \E t \in Threads : \E u \in Threads \ {t} :
        /\ capacity = 2
        /\ result[t] = "ok" /\ result[u] = "timeout"
        /\ head = 1
        /\ storage[0] = value[t] /\ storage[1] = <<>>
        /\ lock_failures = 1

\* combine applied left to right over s, starting from a
RECURSIVE LeftToRight(_, _)
LeftToRight(a, s) == IF s = <<>> THEN a ELSE LeftToRight(Combine(a, Head(s)), Tail(s))

\* C8: a fold that acquires the lock copies the buffer's ordered contents as
\* they are while the lock is held and returns Some of combine folded left to
\* right over that copy from init; a fold that times out returns None and has
\* applied combine to nothing.
C8_FoldIsLeftFoldOfOrderedCopy ==
    [][ \A t \in Threads :
          /\ (pc[t] = "fold_locked" /\ pc'[t] = "fold_combine") =>
                /\ lock = t
                /\ local_storage'[t] = LastN(granted, Min(Len(granted), capacity))
          /\ (pc[t] = "fold_combine" /\ pc'[t] = "done") =>
                fold_result'[t] = <<LeftToRight(<<>>, local_storage[t])>>
          /\ (pc[t] = "fold" /\ pc'[t] = "done") =>
                /\ lock \notin {NoThread, t}
                /\ fold_result'[t] = <<>>
                /\ acc'[t] = <<>> ]_vars

\* a fold over a buffer of two different events has returned
C8_Witness ==
    \E t \in Returned("fmt") :
        /\ backend = "mutex"
        /\ Len(local_storage[t]) = 2
        /\ local_storage[t][1] # local_storage[t][2]
        /\ fold_result[t] = << <<EventToString(local_storage[t][1]), "||",
                                 EventToString(local_storage[t][2])>> >>

\* ------------------------------------------- reading a snapshot string
Delimiters == {",", "::", "||"}

\* The position of the first "::" of s.
HeaderEnd(s) == CHOOSE i \in 1..Len(s) : s[i] = "::" /\ \A j \in 1..(i - 1) : s[j] # "::"

HeaderOf(s) == SubSeq(s, 1, HeaderEnd(s) - 1)

BodyOf(s) == SubSeq(s, HeaderEnd(s) + 1, Len(s))

\* s is one or more pieces separated by sep, with no sep first or last.
SeparatedBy(s, sep) ==
    /\ Len(s) % 2 = 1
    /\ \A i \in 1..Len(s) : IF i % 2 = 0 THEN s[i] = sep ELSE s[i] \notin Delimiters

\* The pieces of a separated s.
FieldsOf(s) == [k \in 1..((Len(s) + 1) \div 2) |-> s[2 * k - 1]]

\* C9 as stated: the snapshot is three comma-separated header fields (version,
\* length, uptime), then "::", then the events joined by "||".
C9_HeaderHasThreeFields ==
    \A t \in Returned("fmt") :
        /\ \E i \in 1..Len(out[t]) : out[t][i] = "::"
        /\ SeparatedBy(HeaderOf(out[t]), ",")
        /\ Len(FieldsOf(HeaderOf(out[t]))) = 3
        /\ FieldsOf(HeaderOf(out[t]))[1] = ToString(ENCODE_VERSION)
        /\ FieldsOf(HeaderOf(out[t]))[2] = ToString(length[t])
        /\ FieldsOf(HeaderOf(out[t]))[3] \in Uptimes
        /\ BodyOf(out[t]) = <<>> \/ SeparatedBy(BodyOf(out[t]), "||")

\* C9 amended: on the queue backend the header is the three fields version,
\* length, uptime; on the mutex backend it is the five fields version,
\* total_entries, length (or -1), lock_misses, uptime. Then "::", then the
\* events joined by "||" with no delimiter first or last (nothing for no
\* event), or on the mutex backend the placeholder "-" alone when the fold
\* timed out.
C9_SnapshotGrammar ==
    \A t \in Returned("fmt") :
        /\ \E i \in 1..Len(out[t]) : out[t][i] = "::"
        /\ SeparatedBy(HeaderOf(out[t]), ",")
        /\ backend = "queue" =>
              FieldsOf(HeaderOf(out[t]))
                  \in {<<ToString(ENCODE_VERSION), ToString(length[t]), u>> : u \in Uptimes}
        /\ backend = "mutex" =>
              FieldsOf(HeaderOf(out[t]))
                  \in {<<ToString(ENCODE_VERSION), ToString(fmt_total_entries[t]),
                         ToString(length[t]), ToString(lock_misses[t]), u>> : u \in Uptimes}
        /\ IF fold_result[t] = <<>>
             THEN backend = "mutex" /\ BodyOf(out[t]) = <<"-">>
             ELSE /\ BodyOf(out[t]) = <<>> \/ SeparatedBy(BodyOf(out[t]), "||")
                  /\ "-" \notin {BodyOf(out[t])[i] : i \in 1..Len(BodyOf(out[t]))}
                  /\ backend = "mutex" =>
                        IF local_storage[t] = <<>>
                          THEN BodyOf(out[t]) = <<>>
                          ELSE FieldsOf(BodyOf(out[t]))
                                 = [k \in 1..Len(local_storage[t]) |->
                                        EventToString(local_storage[t][k])]

\* a mutex-backend snapshot with five header fields, a non-zero total_entries
\* and two events in its body
C9_Witness ==
    \E t \in Returned("fmt") :
        /\ backend = "mutex"
        /\ Len(BodyOf(out[t])) = 3
        /\ Len(HeaderOf(out[t])) = 9
        /\ fmt_total_entries[t] = 1

\* C10: the length of a snapshot is -1 exactly when its len() timed out on
\* the lock; otherwise it is InsertOnlyRingBuffer::len as read under the lock,
\* a number from 0 to capacity; and it is the length field of the header.
C10_LengthIsMinusOneIffLenTimedOut ==
    /\ [](\A t \in Threads :
            (backend = "mutex" /\ op[t] = "fmt" /\ len_result[t] # "none") =>
                /\ (length[t] = -1) <=> (len_result[t] = "timeout")
                /\ len_result[t] = "ok" => length[t] \in 0..capacity
                /\ FieldsOf(HeaderOf(out[t]))[3] = ToString(length[t]))
    /\ [][ \A t \in Threads :
            /\ (backend = "mutex" /\ len_result[t] = "none" /\ len_result'[t] = "ok") =>
                  /\ lock = t
                  /\ length'[t] = RingLen(storage, capacity, head)
                  /\ length'[t] = Min(Len(granted), capacity)
            /\ (len_result[t] = "none" /\ len_result'[t] = "timeout") =>
                  lock \notin {NoThread, t} ]_vars

\* one snapshot whose len() timed out, another that read the length 1
C10_Witness ==
    \E t \in Threads : \E u \in Threads \ {t} :
        /\ op[t] = "fmt" /\ len_result[t] = "timeout" /\ length[t] = -1
        /\ op[u] = "fmt" /\ len_result[u] = "ok" /\ length[u] = 1

\* C11: (mutex backend) a snapshot whose fold timed out has the placeholder
\* "-" alone as its body, after a complete header (version, the counters,
\* uptime, "::"); a snapshot whose fold succeeded on a buffer holding no event
\* has the empty body; so the body is "-" exactly when the fold timed out.
C11_PlaceholderOnlyOnFoldTimeout ==
    \A t \in Returned("fmt") :
        backend = "mutex" =>
            /\ \E i \in 1..Len(out[t]) : out[t][i] = "::"
            /\ SeparatedBy(HeaderOf(out[t]), ",")
            /\ Len(FieldsOf(HeaderOf(out[t]))) = 5
            /\ FieldsOf(HeaderOf(out[t]))[1] = ToString(ENCODE_VERSION)
            /\ FieldsOf(HeaderOf(out[t]))[5] \in Uptimes
            /\ fold_result[t] = <<>> => BodyOf(out[t]) = <<"-">>
            /\ (fold_result[t] # <<>> /\ local_storage[t] = <<>>) => BodyOf(out[t]) = <<>>
            /\ fold_result[t] # <<>> => BodyOf(out[t]) # <<"-">>

\* one snapshot whose fold timed out after its len succeeded, and another
\* whose fold succeeded on the empty buffer
C11_Witness ==
    \E t \in Returned("fmt") : \E u \in Returned("fmt") \ {t} :
        /\ backend = "mutex"
        /\ len_result[t] = "ok"
        /\ fold_result[t] = <<>>
        /\ out[t] = Header(0, 0, 0, "uptime") \o <<"-">>
        /\ fold_result[u] = << <<>> >>
        /\ out[u] = Header(0, 0, 0, "uptime")

\* The begin call that made the first draw from the fresh store's id generator.
IsFirstBegin(t) == op[t] = "begin" /\ Len(fetched) < IdModulus /\ id[t] = fetched[1]

OnlyBeginThenEnd ==
    /\ Len(granted) = 2
    /\ granted[1].kind = "DurationStart"
    /\ granted[2].kind = "DurationEnd"
    /\ granted[2].id = granted[1].id

PointEvents == {Event(NON_CLOSABLE_ID, <<a[1]>>, "Point", a[2]) : a \in Args}

\* C13: record(name, attributes) hands insert one event of kind Point with id
\* 0, the name present and the attributes in the given order; the call draws
\* nothing from the id generator; when its insert succeeds exactly that one
\* event is added (into the slot at head, or pushed onto the queue); and a
\* snapshot of a store whose only insert was that record holds exactly that
\* event.
C13_RecordAddsOnePoint ==
    /\ [][ \A t \in Threads :
            /\ (op'[t] = "record" /\ (calls'[t] # calls[t] \/ pc'[t] # pc[t])) =>
                  /\ value'[t][1] \in PointEvents
                  /\ UNCHANGED <<id_generator, fetched, total_entries>>
            /\ (calls'[t] # calls[t] /\ op'[t] = "record") =>
                  UNCHANGED <<storage, head, insertion_buffer, granted>>
            /\ (op[t] = "record" /\ result[t] = "none" /\ result'[t] = "ok") =>
                  /\ granted' = Append(granted, value[t][1])
                  /\ (backend = "mutex" /\ capacity > 0) =>
                        /\ storage' = [storage EXCEPT ![head] = value[t]]
                        /\ Len(to_vec_ordered(storage', capacity, head'))
                              = Min(Len(to_vec_ordered(storage, capacity, head)) + 1, capacity)
                  /\ backend = "queue" =>
                        /\ insertion_buffer'[Len(insertion_buffer')] = value[t][1]
                        /\ Len(insertion_buffer') = Min(Len(insertion_buffer) + 1, capacity)
            /\ (op[t] = "record" /\ result[t] = "none" /\ result'[t] = "timeout") =>
                  UNCHANGED <<storage, head, insertion_buffer, granted>> ]_vars
    /\ []((backend = "mutex" /\ capacity > 0 /\ Len(granted) = 1
             /\ granted[1].kind = "Point") =>
            /\ granted[1] \in PointEvents
            /\ to_vec_ordered(storage, capacity, head) = granted
            /\ \A t \in Returned("fmt") :
                  (fold_result[t] # <<>> /\ local_storage[t] # <<>>) =>
                      BodyOf(out[t]) = <<EventToString(granted[1])>>)

\* record("y", [("k","v"), ("k","w")]) and then a snapshot, on a fresh store
C13_Witness ==
    \E t \in Returned("fmt") :
        /\ backend = "mutex"
        /\ calls[t] = 2
        /\ granted = <<Event(0, <<"y">>, "Point", << <<"k", "v">>, <<"k", "w">> >>)>>
        /\ id_generator = 1 /\ fetched = <<>>
        /\ local_storage[t] = granted
        /\ BodyOf(out[t]) = <<EventToString(granted[1])>>

\* Thread t is inside begin, record or end.
InCall(t) == op[t] \in {"begin", "record", "end"} /\ pc[t] # "done"

\* C14: every invocation of begin, record or end returns, also when another
\* thread holds the storage lock forever: the insert that cannot get the lock
\* gives up and returns LockTimeout.
C14_CallsReturn == \A t \in Threads : InCall(t) ~> (pc[t] = "done")

\* a begin has returned after its insert gave up on a lock that a snapshot,
\* stopped inside len or fold, still holds
C14_Witness ==
    \E t \in Returned("begin") : \E u \in Threads \ {t} :
        /\ result[t] = "timeout"
        /\ lock = u
        /\ op[u] = "fmt"

\* C15: one invocation of an entry point (begin, record, end, fmt) makes at
\* most one try_lock_for call, and none after one of its calls has timed out.
C15_AtMostOneLockAttempt ==
    \A t \in Threads :
        /\ attempts[t] <= 1
        /\ (result[t] = "timeout" \/ len_result[t] = "timeout") => attempts[t] = 1

\* The threads inside a critical section of the buffer's mutex.
InCriticalSection == {t \in Threads : pc[t] \in {"insert_locked", "len_locked", "fold_locked"}}

\* C16: (mutex backend, capacity > 0) the lock is held by one thread at a
\* time, exactly while that thread is in its critical section; the insert
\* that returns Ok is the lock holder's and puts its event last in
\* to_vec_ordered, dropping only the oldest event when the buffer is full; an
\* insert that times out adds nothing; and no other step (of begin, record,
\* end or a snapshot) changes to_vec_ordered. So the buffer reads in the order
\* in which the inserts were granted the lock, with no event duplicated and
\* none lost but by a timeout or by overwriting the oldest.
C16_BufferOrderIsLockOrder ==
    /\ [](backend = "mutex" =>
            /\ Cardinality(InCriticalSection) <= 1
            /\ \A t \in Threads : (t \in InCriticalSection) <=> (lock = t))
    /\ [][ (backend = "mutex" /\ capacity > 0) =>
            LET before == to_vec_ordered(storage, capacity, head)
                after == to_vec_ordered(storage', capacity, head')
            IN  /\ \A t \in Threads :
                      /\ InsertReturnsOk(t) =>
                            /\ lock = t
                            /\ after = LastN(Append(before, value[t][1]),
                                             Min(Len(before) + 1, capacity))
                      /\ InsertReturnsTimeout(t) =>
                            /\ lock \notin {NoThread, t}
                            /\ after = before
                /\ (\A t \in Threads : ~InsertReturnsOk(t)) => after = before ]_vars

\* thread 1 called begin before thread 2 called record, thread 2's insert was
\* granted the lock first, and the snapshot reads the Point before the
\* DurationStart
C16_Witness ==
    \E t \in Returned("fmt") :
        /\ backend = "mutex" /\ capacity = 2
        /\ calls = <<1, 2>>
        /\ op[1] = "begin" /\ result[1] = "ok"
        /\ local_storage[t] = to_vec_ordered(storage, capacity, head)
        /\ Len(local_storage[t]) = 2
        /\ local_storage[t][1].kind = "Point"
        /\ local_storage[t][2] = value[1][1]

\* The id generator has not wrapped: it has handed out fewer values than it has.
NotWrapped == Len(fetched) < IdModulus

\* The threads inside begin that hold the id generate_id returned to them.
HoldsId == {t \in Threads : op[t] = "begin" /\ pc[t] # "generate_id"}

\* C17: until the counter wraps, the values the fetch_adds return are strictly
\* increasing in the order of the increments, hence pairwise distinct; the ids
\* held by concurrent begin calls are distinct and non-zero; and no non-zero
\* id has been returned by two begin calls, in whatever order the events were
\* inserted.
C17_IdsDistinctAndIncreasing ==
    NotWrapped =>
        /\ \A i \in 1..Len(fetched) : \A j \in 1..Len(fetched) :
              i < j => fetched[i] < fetched[j]
        /\ \A t \in HoldsId : \A u \in HoldsId \ {t} : id[t] # id[u]
        /\ \A t \in HoldsId : id[t] # NON_CLOSABLE_ID /\ \E k \in 1..Len(fetched) : fetched[k] = id[t]
        /\ \A i \in Ids \ {NON_CLOSABLE_ID} : returned[i] <= 1
        /\ \A i \in 1..Len(granted) : \A j \in 1..Len(granted) :
              (i # j /\ granted[i].kind = "DurationStart" /\ granted[j].kind = "DurationStart")
                  => granted[i].id # granted[j].id

\* two begins on two threads drew 1 and then 2, returned 1 and 2, and their
\* events reached the buffer in the other order
C17_Witness ==
    /\ fetched = <<1, 2>>
    /\ id = <<1, 2>>
    /\ ret = << <<1>>, <<2>> >>
    /\ returned[1] = 1 /\ returned[2] = 1
    /\ Len(granted) = 2
    /\ granted[1].id = 2 /\ granted[2].id = 1

\* C18: on a ring buffer of capacity 0 the buffer has no slot and head stays
\* 0, so insert indexes nothing and takes no remainder by 0; insert changes
\* neither slots nor head whatever the value; len() is 0 and to_vec_ordered is
\* empty in every reachable state, and so are the length and the copy of every
\* snapshot that got the lock.
C18_CapacityZeroIsInert ==
    (backend = "mutex" /\ capacity = 0) =>
        /\ DOMAIN storage = {} /\ head = 0
        /\ \A t \in Threads :
              value[t] # <<>> =>
                  /\ RingInsertStorage(storage, capacity, head, value[t][1]) = storage
                  /\ RingInsertHead(capacity, head) = head
        /\ is_full(storage, capacity)
        /\ RingLen(storage, capacity, head) = 0
        /\ to_vec_ordered(storage, capacity, head) = <<>>
        /\ \A t \in Threads :
              /\ len_result[t] = "ok" => length[t] = 0
              /\ local_storage[t] = <<>>

\* capacity 0: two inserts have returned Ok and a snapshot reads length 0 and
\* no event
C18_Witness ==
    \E t \in Returned("fmt") :
        /\ backend = "mutex" /\ capacity = 0
        /\ Len(granted) = 2
        /\ len_result[t] = "ok" /\ length[t] = 0
        /\ fold_result[t] = << <<>> >>

\* C19: no step decrements or resets lock_failures; the step in which an
\* insert times out raises it by exactly 1 and no other step changes it; and
\* what get_lock_misses has read never exceeds the counter.
C19_LockMissesNeverDecrease ==
    /\ [][ /\ lock_failures' >= lock_failures
           /\ \A t \in Threads :
                 InsertReturnsTimeout(t) => lock_failures' = lock_failures + 1
           /\ lock_failures' # lock_failures => \E t \in Threads : InsertReturnsTimeout(t)
           /\ \A t \in Threads :
                 (pc[t] = "get_lock_misses" /\ pc'[t] # pc[t]) =>
                     lock_misses'[t] = lock_failures ]_vars
    /\ [](\A t \in Threads : lock_misses[t] <= lock_failures)

\* an insert timed out while a snapshot held the lock, and a later snapshot
\* reports one lock miss in its header
C19_Witness ==
    \E t \in Returned("fmt") :
        /\ lock_failures = 1
        /\ lock_misses[t] = 1
        /\ result[t] = "none" /\ calls[t] = 2
        /\ FieldsOf(HeaderOf(out[t]))[4] = "1"

\* Point events carry id 0, DurationStart and DurationEnd events a non-zero id.
WellFormed(e) ==
    /\ e.kind \in {"Point", "DurationStart", "DurationEnd"}
    /\ e.kind = "Point" => e.id = NON_CLOSABLE_ID
    /\ e.kind \in {"DurationStart", "DurationEnd"} => e.id # NON_CLOSABLE_ID

\* C20: every event that begin, record or end has handed to insert, every
\* event ever inserted, every event in a slot of the ring buffer or in the
\* queue, and every event a snapshot copied, is a Point with id 0 or a
\* DurationStart / DurationEnd with a non-zero id.
C20_EventIdMatchesKind ==
    /\ \A t \in Threads :
          (value[t] # <<>> /\ pc[t] # "generate_id") => WellFormed(value[t][1])
    /\ \A i \in 1..Len(granted) : WellFormed(granted[i])
    /\ \A i \in DOMAIN storage : storage[i] # <<>> => WellFormed(storage[i][1])
    /\ \A i \in 1..Len(insertion_buffer) : WellFormed(insertion_buffer[i])
    /\ \A t \in Threads : \A i \in 1..Len(local_storage[t]) : WellFormed(local_storage[t][i])

\* a DurationStart, its DurationEnd and a Point have been inserted, the last
\* two are in the buffer
C20_Witness ==
    /\ backend = "mutex" /\ capacity = 2
    /\ Len(granted) = 3
    /\ granted[1].kind = "DurationStart"
    /\ granted[2].kind = "DurationEnd" /\ granted[2].id = granted[1].id
    /\ granted[3].kind = "Point"
    /\ to_vec_ordered(storage, capacity, head) = <<granted[2], granted[3]>>

\* What the buffer read after the first n inserts.
BufferAfter(n) == LastN(SubSeq(granted, 1, n), Min(n, capacity))

\* C21: (mutex backend) combine is applied only after the lock is released:
\* a thread that holds the lock has applied combine to nothing, and a thread
\* that is about to apply combine does not hold the lock. The result of a
\* fold is combine folded over its copy, and the copy is what the buffer held
\* after some number of the inserts made so far, so an insert made after the
\* copy is not in the result.
C21_CombineRunsOutsideTheLock ==
    backend = "mutex" =>
        \A t \in Threads :
            /\ lock = t => (acc[t] = <<>> /\ fold_result[t] = <<>>)
            /\ pc[t] = "fold_combine" => lock # t
            /\ (op[t] = "fmt" /\ pc[t] \in {"fold_combine", "done"} /\ capacity > 0) =>
                  \E n \in 0..Len(granted) : local_storage[t] = BufferAfter(n)
            /\ (t \in Returned("fmt") /\ fold_result[t] # <<>>) =>
                  fold_result[t] = <<LeftToRight(<<>>, local_storage[t])>>

\* a fold has copied a buffer of one event and not yet applied combine;
\* meanwhile another thread's insert got the lock and added a second event
C21_Witness ==
    \E t \in Threads : \E u \in Threads \ {t} :
        /\ backend = "mutex" /\ capacity = 2
        /\ pc[t] = "fold_combine"
        /\ op[u] \in {"begin", "record", "end"} /\ result[u] = "ok"
        /\ Len(granted) = 2
        /\ local_storage[t] = <<granted[1]>>
        /\ to_vec_ordered(storage, capacity, head) = granted

\* C22: the counter counts modulo IdModulus; generate_id stays in its loop
\* exactly while the value it fetched is 0, and the id it returns (the id of
\* every begin past generate_id, and of the DurationStart event built from it)
\* is a fetched value other than 0, also after the counter has wrapped.
C22_GenerateIdSkipsZero ==
    /\ \A k \in 1..Len(fetched) : fetched[k] = k % IdModulus
    /\ id_generator = (Len(fetched) + 1) % IdModulus
    /\ \A t \in Threads :
          /\ pc[t] = "generate_id" => (op[t] = "begin" /\ id[t] = NON_CLOSABLE_ID)
          /\ t \in HoldsId =>
                /\ id[t] \in Ids \ {NON_CLOSABLE_ID}
                /\ value[t][1].id = id[t]
                /\ \E k \in 1..Len(fetched) : fetched[k] = id[t]

\* the counter has wrapped: a begin fetched 0, drew again and holds id 1
C22_Witness ==
    \E t \in HoldsId :
        /\ Len(fetched) = IdModulus + 1
        /\ fetched[IdModulus] = NON_CLOSABLE_ID
        /\ fetched[IdModulus + 1] = 1
        /\ id[t] = 1
        /\ pc[t] = "insert"

\* The inserts, numbered from 1, that wrote slot i.
WritesOf(i) == {k \in 1..Len(granted) : (k - 1) % capacity = i}

\* The last of a non-empty set of numbers.
Last(S) == CHOOSE k \in S : \A j \in S : j <= k

\* C23: with capacity c > 0, in every reachable state the slots are indexed
\* 0..c-1, each holds at most one event, 0 <= head < c, at most c events are
\* present, head is the number of inserts mod c, and slot i holds the event
\* of the last insert whose number is i + 1 mod c (nothing if there was none):
\* each insert wrote the slot at the old head, moved head to (head + 1) mod c
\* and left every other slot as it was.
C23_RingShape ==
    (backend = "mutex" /\ capacity > 0) =>
        /\ DOMAIN storage = 0..(capacity - 1)
        /\ head \in 0..(capacity - 1)
        /\ head = Len(granted) % capacity
        /\ \A i \in 0..(capacity - 1) :
              /\ Len(storage[i]) <= 1
              /\ storage[i] = IF WritesOf(i) = {} THEN <<>> ELSE <<granted[Last(WritesOf(i))]>>
        /\ Cardinality({i \in DOMAIN storage : storage[i] # <<>>}) <= capacity

\* capacity 2 after three inserts of different events: the third has
\* overwritten slot 0, slot 1 keeps the second, head is 1
C23_Witness ==
    /\ backend = "mutex" /\ capacity = 2
    /\ Len(granted) = 3
    /\ granted[1] # granted[3] /\ granted[2] # granted[3]
    /\ head = 1
    /\ storage[0] = <<granted[3]>>
    /\ storage[1] = <<granted[2]>>

\* C24: (mutex backend) the length a snapshot reads under the lock is capacity
\* when slot capacity-1 is occupied (or capacity is 0) and head otherwise;
\* len() never decreases from one state to the next, a full buffer stays
\* full, and once capacity inserts have been made len() is capacity.
C24_LenIsMonotonic ==
    /\ [][ backend = "mutex" =>
            /\ RingLen(storage', capacity, head') >= RingLen(storage, capacity, head)
            /\ is_full(storage, capacity) => is_full(storage', capacity)
            /\ \A t \in Threads :
                  (pc[t] = "len_locked" /\ pc'[t] # pc[t]) =>
                      length'[t] = IF capacity = 0 \/ storage[capacity - 1] # <<>>
                                     THEN capacity ELSE head ]_vars
    /\ [](backend = "mutex" =>
            /\ Len(granted) >= capacity => RingLen(storage, capacity, head) = capacity
            /\ Len(granted) < capacity => RingLen(storage, capacity, head) = head)

\* capacity 2 after two inserts: head has wrapped to 0 and a snapshot reads
\* the length 2
C24_Witness ==
    \E t \in Returned("fmt") :
        /\ backend = "mutex" /\ capacity = 2
        /\ Len(granted) = 2
        /\ head = 0
        /\ len_result[t] = "ok" /\ length[t] = 2

\* The names callers pass to begin and record.
Names == {a[1] : a \in Args}

\* A Point or DurationStart event has a name, a DurationEnd event has none.
NameMatchesKind(e) ==
    /\ e.kind \in {"Point", "DurationStart"} => \E n \in Names : e.name = <<n>>
    /\ e.kind = "DurationEnd" => e.name = <<>>

\* C25: every event in the store (a slot of the ring buffer, an element of
\* the queue), every event ever inserted, every event on its way into insert
\* and every event a snapshot copied has a name if it is a Point or a
\* DurationStart and no name if it is a DurationEnd.
C25_NameMatchesKind ==
    /\ \A i \in DOMAIN storage : storage[i] # <<>> => NameMatchesKind(storage[i][1])
    /\ \A i \in 1..Len(insertion_buffer) : NameMatchesKind(insertion_buffer[i])
    /\ \A i \in 1..Len(granted) : NameMatchesKind(granted[i])
    /\ \A t \in Threads :
          /\ value[t] # <<>> => NameMatchesKind(value[t][1])
          /\ \A i \in 1..Len(local_storage[t]) : NameMatchesKind(local_storage[t][i])

\* begin("x"), record("y") and end(1): the buffer of two slots holds the
\* Point named y and the DurationEnd without a name
C25_Witness ==
    /\ backend = "mutex" /\ capacity = 2
    /\ Len(granted) = 3
    /\ granted[1].kind = "DurationStart" /\ granted[1].name = <<"x">>
    /\ granted[2].kind = "Point" /\ granted[2].name = <<"y">>
    /\ granted[3].kind = "DurationEnd" /\ granted[3].name = <<>>
    /\ to_vec_ordered(storage, capacity, head) = <<granted[2], granted[3]>>

\* The DurationEnd events end can build for id i.
EndEvents(i) == {Event(i, <<>>, "DurationEnd", d) : d \in EndDatas}

\* C26: end(id, _) with any non-zero id, issued by begin or not, ended before
\* or not, is not rejected: it hands insert one DurationEnd event with that
\* id, without touching the store. Its insert adds that one event at most
\* once (the call is over when the insert returns), as any insert does: the
\* event goes last in the buffer and only the oldest event is dropped when
\* the buffer is full.
C26_EndOfAnyIdIsOrdinary ==
    /\ [][ \A t \in Threads :
            /\ (calls'[t] # calls[t] /\ op'[t] = "end" /\ id'[t] # NON_CLOSABLE_ID) =>
                  /\ pc'[t] = "insert"
                  /\ \E e \in EndEvents(id'[t]) : value'[t] = <<e>>
                  /\ UNCHANGED <<store, granted>>
            /\ (op[t] = "end" /\ calls'[t] = calls[t] /\ granted' # granted
                  /\ result'[t] # result[t]) =>
                  /\ granted' = Append(granted, value[t][1])
                  /\ pc'[t] = "done"
                  /\ (backend = "mutex" /\ capacity > 0) =>
                        to_vec_ordered(storage', capacity, head')
                            = LastN(Append(to_vec_ordered(storage, capacity, head), value[t][1]),
                                    Min(RingLen(storage, capacity, head) + 1, capacity)) ]_vars
    /\ [](\A t \in Threads :
            (op[t] = "end" /\ id[t] # NON_CLOSABLE_ID) =>
                /\ \E e \in EndEvents(id[t]) : value[t] = <<e>>
                /\ pc[t] = "done" => result[t] \in {"ok", "timeout"}
                /\ backend = "queue" /\ pc[t] = "done" => result[t] = "ok")

\* on a store that has issued no id, end(2, _) was called twice and both
\* DurationEnd events are in the buffer
C26_Witness ==
    \E t \in Returned("end") :
        /\ backend = "mutex" /\ capacity = 2
        /\ fetched = <<>>
        /\ id[t] = 2 /\ result[t] = "ok"
        /\ Len(granted) = 2
        /\ granted[1] \in EndEvents(2) /\ granted[2] \in EndEvents(2)
        /\ to_vec_ordered(storage, capacity, head) = granted

\* The sequences that keep some of the elements of s, in the order of s.
SubSeqsOf(s) ==
    UNION {{[j \in 1..n |-> s[f[j]]] :
                f \in {g \in [1..n -> 1..Len(s)] : \A j, k \in 1..n : j < k => g[j] < g[k]}}
            : n \in 0..Len(s)}

\* A queue fold has returned and nothing was inserted since.
drained == drained_at = <<Len(granted)>>

\* C27: on the queue backend fold drains: when a fold has returned and nothing
\* was inserted since, the queue is empty (len() is 0); an fmt that began in
\* such a state and saw no insert read 0 from len() and its fold returned
\* init (the empty string) unchanged; and what a fold has accumulated is the
\* left fold of events that were inserted, in the order of their insertion.
C27_FoldDrainsTheQueue ==
    backend = "queue" =>
        /\ drained => insertion_buffer = <<>>
        /\ \A t \in Threads :
            /\ (op[t] = "fmt" /\ after_drain[t] /\ pc[t] \in {"lf_fold", "done"}) =>
                    /\ length[t] = 0
                    /\ acc[t] = <<>>
            /\ (t \in Returned("fmt") /\ after_drain[t]) =>
                    /\ fold_result[t] = << <<>> >>
                    /\ \E uptime \in Uptimes : out[t] = LfHeader(0, uptime)
            /\ op[t] = "fmt" => \E visited \in SubSeqsOf(granted) : acc[t] = FoldLeft(<<>>, visited)

\* one thread's fold has visited the one event inserted; the other thread's
\* fmt came after it, read length 0 and folded nothing
C27_Witness ==
    \E t, u \in Returned("fmt") :
        /\ backend = "queue"
        /\ Len(granted) = 1
        /\ length[u] = 1 /\ fold_result[u] = <<FoldLeft(<<>>, granted)>>
        /\ after_drain[t]
        /\ length[t] = 0 /\ fold_result[t] = << <<>> >>

\* The number of inserts made since a queue fold last returned.
SinceDrain == Len(granted) - (IF drained_at = <<>> THEN 0 ELSE drained_at[1])

Occupied == {i \in DOMAIN storage : storage[i] # <<>>}

\* C29: in every reachable state of the ring buffer the occupied slots are
\* the first ones, without a gap; is_full() holds exactly when every slot is
\* occupied; and len() is the number of occupied slots, which is the smaller
\* of the number of inserts that returned Ok and the capacity.
C29_FullnessIsExact ==
    backend = "mutex" =>
        /\ Occupied = 0..(Cardinality(Occupied) - 1)
        /\ is_full(storage, capacity) <=> Occupied = DOMAIN storage
        /\ RingLen(storage, capacity, head) = Cardinality(Occupied)
        /\ Cardinality(Occupied) = Min(Len(granted), capacity)

\* capacity 2 after one insert: slot 0 is occupied, slot 1 is not, the buffer
\* is not full and len() is 1
C29_Witness ==
    /\ backend = "mutex" /\ capacity = 2
    /\ Len(granted) = 1
    /\ Occupied = {0}
    /\ ~is_full(storage, capacity)
    /\ RingLen(storage, capacity, head) = 1

\* The number of events rendered in the body of thread t's snapshot.
BodyCount(t) == Len(FieldsOf(BodyOf(out[t])))

\* The snapshots that have returned with both acquisitions successful.
FullSnapshots ==
    {t \in Returned("fmt") : backend = "mutex" /\ len_result[t] = "ok" /\ fold_result[t] # <<>>}

\* C30 as stated: in a snapshot whose len() and fold both got the lock, the
\* length field equals the number of events in the body.
C30_LengthEqualsBodyCount ==
    \A t \in FullSnapshots : length[t] = BodyCount(t)

\* C30 amended: len() and fold take the lock separately, so in a snapshot in
\* which both got the lock the length field is at most the number of events
\* in the body, which is at most the capacity; the two are equal exactly when
\* the buffer was full at len() or no insert was granted the lock between
\* len() and fold's copy. An insert granted in between makes the body longer
\* than the length field says.
C30_LengthIsAtMostBodyCount ==
    /\ [](\A t \in FullSnapshots :
            /\ BodyCount(t) = Len(local_storage[t])
            /\ length[t] <= BodyCount(t)
            /\ BodyCount(t) <= Min(Len(granted), capacity)
            /\ FieldsOf(HeaderOf(out[t]))[3] = ToString(length[t]))
    /\ [][ \A t \in Threads :
            (pc[t] = "fold_locked" /\ pc'[t] = "fold_combine" /\ len_result[t] = "ok") =>
                /\ Len(local_storage'[t]) = Min(Len(granted), capacity)
                /\ length[t] <= Len(local_storage'[t])
                /\ (length[t] = Len(local_storage'[t]))
                      <=> (length[t] = capacity \/ length[t] = Len(granted)) ]_vars

\* a snapshot of a buffer of two slots read length 1, an insert was granted
\* the lock before its fold, and its body holds both events
C30_Witness ==
    \E t \in FullSnapshots :
        /\ capacity = 2
        /\ length[t] = 1
        /\ BodyCount(t) = 2
        /\ local_storage[t] = granted

\* The number of DurationStart events among the inserts that got the lock.
GrantedStarts == Cardinality({k \in 1..Len(granted) : granted[k].kind = "DurationStart"})

\* The begin calls whose insert has returned Ok and whose fetch_add on
\* total_entries is still to come.
UncountedBegins == {t \in Threads : pc[t] = "begin_return" /\ result[t] = "ok"}

\* The number of begin calls that have returned their id (not the sentinel).
ReturnedIds ==
    LET S[i \in 0..IdModulus] ==
            IF i = 0 THEN 0
            ELSE S[i - 1] + (IF i - 1 = NON_CLOSABLE_ID THEN 0 ELSE returned[i - 1])
    IN  S[IdModulus]

\* C31 as stated: (mutex backend) in every reachable state total_entries is
\* the number of begin calls whose insert acquired the lock.
C31_TotalEntriesEqualsGrantedBegins ==
    backend = "mutex" => total_entries = GrantedStarts

\* C31 amended: begin adds 1 to total_entries after its insert has returned
\* Ok, in a step of its own: total_entries is the number of begin calls whose
\* insert acquired the lock less those that have not yet made the addition,
\* which is the number of begin calls that have returned their id. record,
\* end and a begin whose insert timed out add nothing.
C31_TotalEntriesCountsReturnedBegins ==
    backend = "mutex" =>
        /\ total_entries = GrantedStarts - Cardinality(UncountedBegins)
        /\ total_entries = ReturnedIds
        /\ total_entries <= Len(granted)
        /\ \A t \in Threads : fmt_total_entries[t] <= total_entries

\* two begin calls got the lock; one has returned and is counted, the other
\* has its start event in the buffer and is not counted yet
C31_Witness ==
    \E t \in UncountedBegins :
        /\ backend = "mutex"
        /\ GrantedStarts = 2
        /\ total_entries = 1

\* C32: when end has been passed only ids that a begin had returned, every
\* DurationEnd event that got into storage comes after a DurationStart event
\* of the same id that got into storage; a begin whose insert timed out
\* returned the sentinel, which end does not insert.
C32_EndFollowsStart ==
    unissued_ends = {} =>
        /\ \A k \in 1..Len(granted) :
              granted[k].kind = "DurationEnd" =>
                  \E j \in 1..(k - 1) :
                      granted[j].kind = "DurationStart" /\ granted[j].id = granted[k].id
        /\ \A t \in Threads :
              (op[t] = "end" /\ value[t] # <<>>) =>
                  \E j \in 1..Len(granted) :
                      granted[j].kind = "DurationStart" /\ granted[j].id = id[t]
        /\ \A t \in Returned("begin") : result[t] = "timeout" => ret[t] = <<NON_CLOSABLE_ID>>

\* begin returned 1 and end(1, _) followed; another begin drew 2 while end
\* held the lock, timed out and returned 0: storage holds the start and the
\* end of id 1 and nothing of id 2
C32_Witness ==
    \E t \in Returned("end") : \E u \in Returned("begin") :
        /\ backend = "mutex" /\ unissued_ends = {}
        /\ id[t] = 1 /\ result[t] = "ok"
        /\ id[u] = 2 /\ result[u] = "timeout" /\ ret[u] = <<NON_CLOSABLE_ID>>
        /\ Len(granted) = 2
        /\ granted[1].kind = "DurationStart" /\ granted[1].id = 1
        /\ granted[2].kind = "DurationEnd" /\ granted[2].id = 1

\* C33: (queue backend) every fold that has begun returns, also while other
\* threads keep inserting.
C33_FoldTerminates ==
    \A t \in Threads : (op[t] = "fmt" /\ pc[t] = "lf_fold") ~> (pc[t] = "done")

\* The places, in the insertion order, of the events that the current fold of
\* thread t has popped, in the order of its pops.
RECURSIVE PlacesOf(_, _)
PlacesOf(t, s) ==
    IF s = <<>> THEN <<>>
    ELSE (IF Head(s).thread = t /\ Head(s).call = calls[t] THEN <<Head(s).place>> ELSE <<>>)
            \o PlacesOf(t, Tail(s))

\* The events at these places.
Visited(t) == [k \in 1..Len(PlacesOf(t, popped)) |-> granted[PlacesOf(t, popped)[k]]]

\* C34: (queue backend) over the whole execution each inserted event is
\* popped at most once, by one fold: the pops of all folds took the events in
\* insertion order, no place twice, and a popped event is no longer queued.
\* What a fold has accumulated, and so the body of its snapshot, is made of
\* the events that this fold popped and of no other.
C34_EachEventFoldedAtMostOnce ==
    backend = "queue" =>
        /\ \A j, k \in 1..Len(popped) : j < k => popped[j].place < popped[k].place
        /\ \A k \in 1..Len(popped) :
              popped[k].place \in 1..(Len(granted) - Len(insertion_buffer))
        /\ \A t \in Threads :
              op[t] = "fmt" =>
                  /\ acc[t] = FoldLeft(<<>>, Visited(t))
                  /\ pc[t] = "done" => BodyOf(out[t]) = FoldLeft(<<>>, Visited(t))

\* two snapshots both read length 1 from len(); the one event is in the body
\* of one of them and the body of the other is empty
C34_Witness ==
    \E t \in Returned("fmt") : \E u \in Returned("fmt") \ {t} :
        /\ backend = "queue"
        /\ Len(granted) = 1
        /\ length[t] = 1 /\ length[u] = 1
        /\ BodyOf(out[t]) = <<EventToString(granted[1])>>
        /\ BodyOf(out[u]) = <<>>

\* A step of thread t inside an entry point.
ThreadStep(t) ==
    \/ generate_id(t) \/ insert_lock(t) \/ insert_locked(t) \/ insert_timeout(t)
    \/ begin_return(t) \/ lf_insert(t)
    \/ get_lock_misses(t) \/ len_lock(t) \/ len_locked(t) \/ len_timeout(t)
    \/ fold_lock(t) \/ fold_locked(t) \/ fold_combine(t) \/ fold_timeout(t)
    \/ lf_len(t) \/ lf_fold_pop(t) \/ lf_fold_end(t)

\* C35: a thread holds the storage lock only between the acquisition inside
\* insert, len or fold and the end of that critical section: it does not hold
\* it once the operation has returned, with Ok or with a timeout. So the lock
\* is free whenever no thread is in a critical section, in particular when
\* every call has returned; and a thread that is inside a call can always
\* take a step (it gets the lock, or gives up), so no set of threads can
\* block one another.
C35_LockIsNotLeaked ==
    /\ \A t \in Threads :
          /\ pc[t] \notin {"insert_locked", "len_locked", "fold_locked"} => lock # t
          /\ (pc[t] \in {"begin_return", "fold", "fold_combine", "done"}
                /\ (result[t] = "timeout" \/ len_result[t] = "timeout")) => lock # t
          /\ pc[t] \notin {"idle", "done"} => ENABLED ThreadStep(t)
    /\ InCriticalSection = {} => lock = NoThread
    /\ (\A t \in Threads : pc[t] \in {"idle", "done"}) => lock = NoThread
    /\ backend = "queue" => lock = NoThread

\* one insert has returned Ok and another has returned LockTimeout; every
\* call has returned and the lock is free
C35_Witness ==
    \E t \in Threads : \E u \in Threads \ {t} :
        /\ backend = "mutex"
        /\ pc[t] = "done" /\ result[t] = "ok"
        /\ pc[u] = "done" /\ result[u] = "timeout"
        /\ lock_failures = 1
        /\ lock = NoThread

\* The DurationStart events of s, in the order of s.
StartsOf(s) == SelectSeq(s, LAMBDA e : e.kind = "DurationStart")

\* The ids of s are strictly increasing.
IncreasingIds(s) == \A j, k \in 1..Len(s) : j < k => s[j].id < s[k].id

\* The DurationStart events of the ring buffer, oldest first.
BufferStarts == StartsOf(to_vec_ordered(storage, capacity, head))

\* C36 as stated: (mutex backend, before the counter wraps) the DurationStart
\* events of the ring buffer, read oldest first, have strictly increasing ids.
C36_StartsInIncreasingIdOrder ==
    (backend = "mutex" /\ NotWrapped) => IncreasingIds(BufferStarts)

\* C36 amended: (mutex backend, before the counter wraps) the DurationStart
\* events of the ring buffer, read oldest first, are the most recent of the
\* DurationStart events in the order in which their inserts got the lock, and
\* their ids are pairwise distinct; the ids are strictly increasing as long
\* as one thread alone has called the store. A begin draws its id before its
\* insert asks for the lock, so two begin calls that overlap can insert in
\* the order opposite to their ids.
C36_StartsInLockOrder ==
    (backend = "mutex" /\ NotWrapped) =>
        /\ BufferStarts = LastN(StartsOf(granted), Len(BufferStarts))
        /\ \A j, k \in 1..Len(BufferStarts) :
              j # k => BufferStarts[j].id # BufferStarts[k].id
        /\ (\A t \in Threads \ {1} : calls[t] = 0) => IncreasingIds(BufferStarts)
        /\ \A k \in 1..Len(BufferStarts) :
              BufferStarts[k].id \in {fetched[n] : n \in 1..Len(fetched)} \ {NON_CLOSABLE_ID}

\* two begin calls drew 1 and 2; the one that drew 2 got the lock first, and
\* the buffer reads the start of id 2 before the start of id 1
C36_Witness ==
    /\ backend = "mutex" /\ capacity = 2
    /\ fetched = <<1, 2>>
    /\ Len(BufferStarts) = 2
    /\ BufferStarts[1].id = 2 /\ BufferStarts[2].id = 1
    /\ BufferStarts = granted

=============================================================================
